---- MODULE Spec2Model ----
(***************************************************************************)
(* chrononoteai: filing notes from a scratch buffer into a date-partitioned *)
(* markdown archive (notes/notes.go, main.go).                              *)
(*                                                                          *)
(* Text is a sequence of lexemes.  The lexemes the code looks inside are    *)
(* single characters ("-", " ", "\n", "/", quotes); a lexeme the code never *)
(* looks inside (a word, a key with its colon, a group of digits) stands    *)
(* for the run of characters it names.                                      *)
(***************************************************************************)
EXTENDS Integers, Sequences, FiniteSets, TLC

VARIABLES
    pc,        \* position of main / ProcessNotes
    base,      \* cfg.NotesDir, the markdownDir argument
    files,     \* the file system: path -> content, for the files that exist
    dirs,      \* the directories MkdirAll has created
    files0,    \* the file system when the run started
    data,      \* the bytes main read from the buffer file
    notes,     \* the notes parseNotes returned
    idx,       \* the write loop's position in notes (1-based)
    err,       \* the error ProcessNotes returns ("nil" when none)
    calls,     \* the calls ProcessNotes made on the FileSystem, in order
    mainErr,   \* what main logged: "nil", "read", "process", "clear"
    arg,       \* input of the function under test (function harnesses)
    res        \* its result; over several runs of main, the record of the
               \* runs before the current one

vars == <<pc, base, files, dirs, files0, data, notes, idx, err, calls, mainErr, arg, res>>

-----------------------------------------------------------------------------
(* Bounds of the model *)

\* number of pieces a buffer is put together from
MaxPieces == 2

\* number of tags of a note handed to formatNoteContent on its own
MaxTags == 2

\* number of notes of a buffer of valid notes
MaxNotes == 3

\* number of runs of main on the same buffer file and archive
MaxRuns == 2

-----------------------------------------------------------------------------
(* Strings *)

NL == "\n"
SP == " "
DASH == "-"
SLASH == "/"
DQ == "\""
SQ == "'"

\* the delimiter parseNotes splits on
Delimiter == <<DASH, DASH, DASH>>

\* unicode.IsSpace over the alphabet
IsSpace(c) == c \in {SP, NL}

\* strings.HasPrefix(s[i:], sep), i 1-based
HasPrefixAt(s, i, sep) ==
    /\ i + Len(sep) - 1 <= Len(s)
    /\ \A k \in 1..Len(sep) : s[i + k - 1] = sep[k]

RECURSIVE SplitFrom(_, _, _, _)
\* strings.Split: scan left to right, cut at every non-overlapping sep; the
\* scan from i goes on to the first place where sep starts
SplitFrom(s, i, cur, sep) ==
    LET found == {j \in i..Len(s) : HasPrefixAt(s, j, sep)}
    IN  IF found = {} THEN <<cur \o SubSeq(s, i, Len(s))>>
        ELSE LET j == CHOOSE m \in found : \A k \in found : m <= k
             IN  <<cur \o SubSeq(s, i, j - 1)>> \o SplitFrom(s, j + Len(sep), <<>>, sep)

Split(s, sep) == SplitFrom(s, 1, <<>>, sep)

RECURSIVE TrimLeft(_)
TrimLeft(s) == IF s # <<>> /\ IsSpace(Head(s)) THEN TrimLeft(Tail(s)) ELSE s

RECURSIVE TrimRight(_)
TrimRight(s) ==
    IF s # <<>> /\ IsSpace(s[Len(s)]) THEN TrimRight(SubSeq(s, 1, Len(s) - 1)) ELSE s

\* strings.TrimSpace
TrimSpace(s) == TrimRight(TrimLeft(s))

\* the lines of a text: the text cut at every "\n"
Lines(s) == Split(s, <<NL>>)

-----------------------------------------------------------------------------
(* Calendar dates: time.Parse("2006-01-02", s), Time.Format, Time.Day *)

\* two-digit groups, "01" .. "31": Pad2[n] is fmt.Sprintf("%02d", n)
Pad2 == <<"01", "02", "03", "04", "05", "06", "07", "08", "09", "10",
          "11", "12", "13", "14", "15", "16", "17", "18", "19", "20",
          "21", "22", "23", "24", "25", "26", "27", "28", "29", "30", "31">>

\* one-digit groups (not zero-padded)
Pad1 == <<"1", "2", "3", "4", "5", "6", "7", "8", "9">>

\* four-digit groups: the years of the model and their values
Years == [y \in {"2023", "2024"} |-> IF y = "2023" THEN 2023 ELSE 2024]

Pad4(n) == CHOOSE y \in DOMAIN Years : Years[y] = n

IsPad2(t) == \E n \in 1..Len(Pad2) : Pad2[n] = t
Atoi2(t) == CHOOSE n \in 1..Len(Pad2) : Pad2[n] = t
IsPad1(t) == \E n \in 1..Len(Pad1) : Pad1[n] = t
Atoi1(t) == CHOOSE n \in 1..Len(Pad1) : Pad1[n] = t

IsLeap(y) == (y % 4 = 0 /\ y % 100 # 0) \/ y % 400 = 0

DaysIn(m, y) ==
    IF m = 2 THEN (IF IsLeap(y) THEN 29 ELSE 28)
    ELSE IF m \in {4, 6, 9, 11} THEN 30 ELSE 31

NoTime == [ok |-> FALSE, year |-> 0, month |-> 0, day |-> 0]

\* time.Parse("2006-01-02", s): four-digit year, two-digit month and day,
\* all in range for the calendar; anything else is an error
ParseDate(s) ==
    IF /\ Len(s) = 5
       /\ s[1] \in DOMAIN Years
       /\ s[2] = DASH /\ s[4] = DASH
       /\ IsPad2(s[3]) /\ IsPad2(s[5])
       /\ Atoi2(s[3]) <= 12
       /\ Atoi2(s[5]) <= DaysIn(Atoi2(s[3]), Years[s[1]])
    THEN [ok |-> TRUE, year |-> Years[s[1]], month |-> Atoi2(s[3]), day |-> Atoi2(s[5])]
    ELSE NoTime

-----------------------------------------------------------------------------
(* Paths: path/filepath *)

DOT == "."
DOTDOT == ".."

RECURSIVE JoinWith(_, _)
\* strings.Join(elems, sep)
JoinWith(elems, sep) ==
    IF elems = <<>> THEN <<>>
    ELSE IF Len(elems) = 1 THEN Head(elems)
    ELSE Head(elems) \o sep \o JoinWith(Tail(elems), sep)

RECURSIVE CleanComps(_, _, _)
\* filepath.Clean's pass over the elements: drop empty and "." elements, let
\* ".." remove the element before it (at the root it is dropped; in a relative
\* path with nothing left to remove it is kept)
CleanComps(comps, out, rooted) ==
    IF comps = <<>> THEN out
    ELSE LET c == Head(comps)
             rest == Tail(comps)
         IN  IF c = <<>> \/ c = <<DOT>> THEN CleanComps(rest, out, rooted)
             ELSE IF c = <<DOTDOT>>
                  THEN IF out # <<>> /\ out[Len(out)] # <<DOTDOT>>
                       THEN CleanComps(rest, SubSeq(out, 1, Len(out) - 1), rooted)
                       ELSE IF rooted THEN CleanComps(rest, out, rooted)
                            ELSE CleanComps(rest, Append(out, c), rooted)
                  ELSE CleanComps(rest, Append(out, c), rooted)

\* filepath.Clean
Clean(p) ==
    IF p = <<>> THEN <<DOT>>
    ELSE LET rooted == p[1] = SLASH
             out == CleanComps(Split(p, <<SLASH>>), <<>>, rooted)
         IN  IF rooted THEN <<SLASH>> \o JoinWith(out, <<SLASH>>)
             ELSE IF out = <<>> THEN <<DOT>> ELSE JoinWith(out, <<SLASH>>)

\* filepath.Join: empty elements are ignored, the rest joined and cleaned
Join(a, b) ==
    LET elems == SelectSeq(<<a, b>>, LAMBDA e : e # <<>>)
    IN  IF elems = <<>> THEN <<>> ELSE Clean(JoinWith(elems, <<SLASH>>))

\* index of the last "/" of p, 0 when there is none
LastSlash(p) ==
    LET S == {i \in 1..Len(p) : p[i] = SLASH}
    IN  IF S = {} THEN 0 ELSE CHOOSE i \in S : \A j \in S : j <= i

\* filepath.Dir: everything up to the last separator, cleaned
Dir(p) == Clean(SubSeq(p, 1, LastSlash(p)))

Note(t, d, g, c) == [Title |-> t, Date |-> d, Tags |-> g, Content |-> c]

\* noteDate.Format("2006/01")
FormatYearMonth(t) == <<Pad4(t.year), SLASH, Pad2[t.month]>>

\* variant: the month where the day belongs
FileNameMut(t) == <<Pad2[t.month], ".md">>
\* fmt.Sprintf("%02d.md", noteDate.Day())
FileName(t) == <<Pad2[t.day], ".md">>

\* buildMarkdownPath: [err, path]
buildMarkdownPath(note, baseDir) ==
    LET noteDate == ParseDate(note.Date)
    IN  IF ~noteDate.ok THEN [err |-> "invalid date", path |-> <<>>]
        ELSE [err |-> "nil",
              path |-> Join(Join(baseDir, FormatYearMonth(noteDate)), FileName(noteDate))]

-----------------------------------------------------------------------------
(* YAML, as far as the notes use it: a flat block mapping with the keys      *)
(* title, date and tags, one key per line, scalars plain or quoted on one    *)
(* line, tags a block sequence or the empty flow sequence.                   *)

KeyTitle == "title:"
KeyDate == "date:"
KeyTags == "tags:"
Keys == {KeyTitle, KeyDate, KeyTags}
EmptyFlowSeq == "[]"

\* a run of digits is one lexeme
IsDigits(t) == t \in DOMAIN Years \/ IsPad2(t) \/ IsPad1(t)

\* yaml's resolve: the plain scalar is a timestamp (layout "2006-1-2")
YamlIsTimestamp(s) ==
    /\ Len(s) = 5
    /\ s[1] \in DOMAIN Years
    /\ s[2] = DASH /\ s[4] = DASH
    /\ (IsPad2(s[3]) \/ IsPad1(s[3]))
    /\ (IsPad2(s[5]) \/ IsPad1(s[5]))
    /\ LET m == IF IsPad2(s[3]) THEN Atoi2(s[3]) ELSE Atoi1(s[3])
           d == IF IsPad2(s[5]) THEN Atoi2(s[5]) ELSE Atoi1(s[5])
       IN  m <= 12 /\ d <= DaysIn(m, Years[s[1]])

\* yaml's resolve: the plain scalar is a number
YamlIsNumber(s) == Len(s) = 1 /\ IsDigits(s[1])

\* the emitter's analysis: the text cannot be written as a plain scalar
YamlNotPlain(s) ==
    \/ s[1] \in {SP, DQ, SQ, EmptyFlowSeq}
    \/ s[Len(s)] = SP
    \/ s[1] = DASH /\ (Len(s) = 1 \/ s[2] = SP)
    \/ \E i \in 1..Len(s) : s[i] \in Keys /\ (i = Len(s) \/ s[i + 1] = SP)

\* yaml.Marshal of one string
EncodeScalar(s) ==
    IF s = <<>> THEN <<DQ, DQ>>
    ELSE IF YamlIsTimestamp(s) \/ YamlIsNumber(s) THEN <<DQ>> \o s \o <<DQ>>
    ELSE IF YamlNotPlain(s) THEN <<SQ>> \o s \o <<SQ>>
    ELSE s

\* variant: an indentation of two spaces
SeqIndentMut == <<SP, SP>>
\* the indentation yaml.v3 gives the items of a block sequence in a mapping
SeqIndent == <<SP, SP, SP, SP>>

RECURSIVE EncodeItems(_)
EncodeItems(tags) ==
    IF tags = <<>> THEN <<>>
    ELSE SeqIndent \o <<DASH, SP>> \o EncodeScalar(Head(tags)) \o <<NL>>
         \o EncodeItems(Tail(tags))

\* variant: a bare key for an empty sequence
EncodeEmptyTagsMut == <<KeyTags, NL>>
\* yaml.Marshal of a nil or empty []string field
EncodeEmptyTags == <<KeyTags, SP, EmptyFlowSeq, NL>>

\* yaml.Marshal(FrontMatter{Title, Date, Tags})
Marshal(fm) ==
    <<KeyTitle, SP>> \o EncodeScalar(fm.Title) \o <<NL>>
    \o <<KeyDate, SP>> \o EncodeScalar(fm.Date) \o <<NL>>
    \o (IF fm.Tags = <<>> THEN EncodeEmptyTags
        ELSE <<KeyTags, NL>> \o EncodeItems(fm.Tags))

\* the number of spaces a line starts with
RECURSIVE Indent(_)
Indent(line) == IF line # <<>> /\ Head(line) = SP THEN 1 + Indent(Tail(line)) ELSE 0

\* the escape sequence of a double-quoted scalar that stands for a dash
EscDash == "\\x2D"

\* the text of a double-quoted scalar with its escape sequences replaced
Unescape(v) == [i \in 1..Len(v) |-> IF v[i] = EscDash THEN DASH ELSE v[i]]

\* a scalar in value position: [ok, val]
DecodeScalar(v) ==
    IF v = <<>> THEN [ok |-> TRUE, val |-> <<>>]
    ELSE IF v[1] \in {DQ, SQ}
         THEN IF Len(v) >= 2 /\ v[Len(v)] = v[1]
                 /\ \A i \in 2..(Len(v) - 1) : v[i] # v[1]
              THEN [ok |-> TRUE,
                    val |-> IF v[1] = DQ THEN Unescape(SubSeq(v, 2, Len(v) - 1))
                            ELSE SubSeq(v, 2, Len(v) - 1)]
              ELSE [ok |-> FALSE, val |-> <<>>]
    ELSE IF \/ v[1] = EmptyFlowSeq
            \/ v[1] = DASH /\ (Len(v) = 1 \/ v[2] = SP)
            \/ \E i \in 1..Len(v) : v[i] \in Keys /\ (i = Len(v) \/ v[i + 1] = SP)
         THEN [ok |-> FALSE, val |-> <<>>]
    ELSE [ok |-> TRUE, val |-> v]

DecodeStart ==
    [err |-> "nil", Title |-> <<>>, Date |-> <<>>, Tags |-> <<>>,
     seen |-> {}, inTags |-> FALSE, itemIndent |-> -1]

DecodeFail(st) == [st EXCEPT !.err = "decode"]

\* one line of the metadata
DecodeLine(line, st) ==
    LET body == TrimSpace(line)
        ind == Indent(line)
    IN  IF body = <<>> THEN st
        ELSE IF body[1] = DASH /\ (Len(body) = 1 \/ body[2] = SP)
        THEN \* an item of a block sequence: only under tags:, all at one indent
             LET v == DecodeScalar(TrimSpace(Tail(body)))
             IN  IF st.inTags /\ v.ok /\ st.itemIndent \in {-1, ind}
                 THEN [st EXCEPT !.Tags = Append(@, v.val), !.itemIndent = ind]
                 ELSE DecodeFail(st)
        ELSE IF ind = 0 /\ body[1] \in Keys /\ (Len(body) = 1 \/ body[2] = SP)
        THEN LET key == body[1]
                 rest == TrimSpace(Tail(body))
                 v == DecodeScalar(rest)
             IN  IF key \in st.seen THEN DecodeFail(st)
                 ELSE IF key = KeyTags
                 THEN IF rest = <<>> \/ rest = <<EmptyFlowSeq>>
                      THEN [st EXCEPT !.seen = @ \cup {key}, !.itemIndent = -1,
                                      !.inTags = (rest = <<>>)]
                      ELSE DecodeFail(st)
                 ELSE IF ~v.ok THEN DecodeFail(st)
                 ELSE IF key = KeyTitle
                 THEN [st EXCEPT !.seen = @ \cup {key}, !.inTags = FALSE, !.Title = v.val]
                 ELSE [st EXCEPT !.seen = @ \cup {key}, !.inTags = FALSE, !.Date = v.val]
        ELSE DecodeFail(st)

RECURSIVE DecodeLines(_, _)
DecodeLines(lines, st) ==
    IF lines = <<>> \/ st.err # "nil" THEN st
    ELSE DecodeLines(Tail(lines), DecodeLine(Head(lines), st))

\* yaml.Unmarshal([]byte(metadata), &note): [err, Title, Date, Tags]
Unmarshal(metadata) ==
    LET st == DecodeLines(Lines(metadata), DecodeStart)
    IN  [err |-> st.err, Title |-> st.Title, Date |-> st.Date, Tags |-> st.Tags]

-----------------------------------------------------------------------------
(* notes/notes.go: the pure functions *)

\* variant: the date is looked at before the title
validateNoteMut(note) ==
    IF note.Date = <<>> THEN "missing date"
    ELSE IF note.Title = <<>> THEN "missing title"
    ELSE IF ~ParseDate(note.Date).ok THEN "invalid date"
    ELSE "nil"
\* validateNote: the error, "nil" when the note is valid; "invalid date"
\* stands for the error time.Parse returns, which validateNote hands on
validateNote(note) ==
    IF note.Title = <<>> THEN "missing title"
    ELSE IF note.Date = <<>> THEN "missing date"
    ELSE IF ~ParseDate(note.Date).ok THEN "invalid date"
    ELSE "nil"

\* variant: no pair is dropped
SkipPairNoneMut(metadata, content) == FALSE
\* variant: a pair is dropped whenever its metadata is blank
SkipPairMut(metadata, content) == TrimSpace(metadata) = <<>>
\* the condition under which parseNotes drops a pair without decoding it
SkipPair(metadata, content) == TrimSpace(metadata) = <<>> /\ content = <<>>

\* variant: skip the pair and go on
OnDecodeErrorMut == "continue"
\* what parseNotes does when yaml.Unmarshal fails: "return" the error, or
\* "continue" with the next pair
OnDecodeError == "return"

RECURSIVE ParseEntries(_, _, _)
\* the loop of parseNotes: for i := 1; i < len(entries); i += 2
\* (i is 0-based as in the source; entries[i] is entries[i + 1] here)
ParseEntries(entries, i, acc) ==
    IF ~(i < Len(entries)) THEN [err |-> "nil", notes |-> acc]
    ELSE LET metadata == entries[i + 1]
             content == IF i + 1 < Len(entries) THEN TrimSpace(entries[i + 2]) ELSE <<>>
             n == Unmarshal(metadata)
         IN  IF SkipPair(metadata, content) THEN ParseEntries(entries, i + 2, acc)
             ELSE IF n.err # "nil"
                  THEN IF OnDecodeError = "return" THEN [err |-> n.err, notes |-> <<>>]
                       ELSE ParseEntries(entries, i + 2, acc)
             ELSE ParseEntries(entries, i + 2,
                               Append(acc, Note(n.Title, n.Date, n.Tags, content)))

RECURSIVE ParseAndValidate(_, _, _)
\* variant of the loop: each note is validated as soon as it is decoded
ParseAndValidate(entries, i, acc) ==
    IF ~(i < Len(entries)) THEN [err |-> "nil", notes |-> acc]
    ELSE LET metadata == entries[i + 1]
             content == IF i + 1 < Len(entries) THEN TrimSpace(entries[i + 2]) ELSE <<>>
             n == Unmarshal(metadata)
             note == Note(n.Title, n.Date, n.Tags, content)
         IN  IF SkipPair(metadata, content) THEN ParseAndValidate(entries, i + 2, acc)
             ELSE IF n.err # "nil" THEN [err |-> n.err, notes |-> <<>>]
             ELSE IF validateNote(note) # "nil"
                  THEN [err |-> validateNote(note), notes |-> <<>>]
             ELSE ParseAndValidate(entries, i + 2, Append(acc, note))

\* variant: decoding and validation go pair by pair
parseNotesMut(d) == ParseAndValidate(Split(d, Delimiter), 1, <<>>)
\* parseNotes: [err, notes]
parseNotes(d) == ParseEntries(Split(d, Delimiter), 1, <<>>)

RECURSIVE ValidateFrom(_, _)
ValidateFrom(ns, k) ==
    IF k > Len(ns) THEN "nil"
    ELSE IF validateNote(ns[k]) # "nil" THEN validateNote(ns[k])
    ELSE ValidateFrom(ns, k + 1)

\* variant: only the first note is validated
ValidateAllMut(ns) == IF ns = <<>> THEN "nil" ELSE validateNote(ns[1])
\* the validation loop of ProcessNotes: the error of the first invalid note
ValidateAll(ns) == ValidateFrom(ns, 1)

\* variant: the expression without its ^ anchor
DateLineMatchesMut(line) == \E i \in 1..Len(line) : line[i] = KeyDate
\* the regular expression (?m)^date:.*$ matches the line
DateLineMatches(line) == line # <<>> /\ line[1] = KeyDate

\* removeQuotesFromDateField: every line the expression matches is replaced
\* by "date: " and the note's date
removeQuotesFromDateField(yamlContent, dateValue) ==
    LET ls == Lines(yamlContent)
        out == [k \in 1..Len(ls) |->
                   IF DateLineMatches(ls[k]) THEN <<KeyDate, SP>> \o dateValue ELSE ls[k]]
    IN  JoinWith(out, <<NL>>)

\* formatNoteContent: yaml.Marshal(frontMatter)
EncodedFrontMatter(note) ==
    Marshal([Title |-> note.Title, Date |-> note.Date, Tags |-> note.Tags])

\* formatNoteContent: the front matter after removeQuotesFromDateField
ProcessedFrontMatter(note) ==
    removeQuotesFromDateField(EncodedFrontMatter(note), note.Date)

\* formatNoteContent: fmt.Sprintf("---\n%s---\n%s\n\n", yamlFrontMatter, note.Content)
formatNoteContent(note) ==
    Delimiter \o <<NL>> \o ProcessedFrontMatter(note) \o Delimiter \o <<NL>>
    \o note.Content \o <<NL, NL>>

-----------------------------------------------------------------------------
(* The inputs of a run: the buffer file, the archive base, the archive *)

DateA == <<"2024", DASH, "09", DASH, "12">>
DateB == <<"2023", DASH, "10", DASH, "01">>
DateFeb30 == <<"2023", DASH, "02", DASH, "30">>

\* one block of the buffer: ---, metadata, ---, body
Block(metadata, body) == Delimiter \o <<NL>> \o metadata \o Delimiter \o <<NL>> \o body

TitleLine(t) == <<KeyTitle, SP>> \o t \o <<NL>>
DateLine(d) == <<KeyDate, SP>> \o d \o <<NL>>
TagsLine == <<KeyTags, NL>>
ItemLine(t) == <<SP, SP, DASH, SP>> \o t \o <<NL>>

\* the texts buffers are put together from
Pieces ==
    { \* a note with one tag, no newline after the body
      Block(TitleLine(<<"T">>) \o DateLine(DateA) \o TagsLine \o ItemLine(<<"a">>),
            <<"Body">>),
      \* a second note of the same day, two tags
      Block(TitleLine(<<"U">>) \o DateLine(DateA) \o TagsLine \o ItemLine(<<"b">>)
                \o ItemLine(<<"a">>),
            <<"Other", SP, "body", NL>>),
      \* a note of an earlier day, without tags
      Block(TitleLine(<<"T">>) \o DateLine(DateB), <<"Body", NL>>),
      \* an empty title
      Block(TitleLine(<<>>) \o DateLine(DateB) \o TagsLine \o ItemLine(<<"a">>),
            <<"Body", NL>>),
      \* no date
      Block(TitleLine(<<"T">>), <<"Body", NL>>),
      \* a date that is not on the calendar
      Block(TitleLine(<<"T">>) \o DateLine(DateFeb30), <<"Body", NL>>),
      \* metadata that is not YAML for a note: a bare word after a key
      Block(TitleLine(<<"T">>) \o <<"Body", NL>>, <<"Body", NL>>),
      \* a block with nothing in it
      Block(<<>>, <<>>),
      \* a title that reads as a number, an empty flow sequence of tags
      Block(TitleLine(<<"2024">>) \o DateLine(DateB) \o <<KeyTags, SP, EmptyFlowSeq, NL>>,
            <<"Body", NL>>),
      \* a tags: key with nothing under it
      Block(TitleLine(<<"U">>) \o DateLine(DateB) \o TagsLine, <<"Body", NL>>),
      \* a body without metadata
      Block(<<>>, <<"Body", NL>>),
      \* the delimiter alone
      Delimiter }

RECURSIVE BuffersOf(_)
\* the buffers made of at most n pieces
BuffersOf(n) ==
    IF n = 0 THEN {<<>>}
    ELSE LET shorter == BuffersOf(n - 1)
         IN  shorter \cup {b \o p : b \in shorter, p \in Pieces}

Buffers == BuffersOf(MaxPieces)

RECURSIVE BuffersFrom(_, _)
\* the buffers made of at most n of the pieces ps
BuffersFrom(ps, n) ==
    IF n = 0 THEN {<<>>}
    ELSE LET shorter == BuffersFrom(ps, n - 1)
         IN  shorter \cup {b \o p : b \in shorter, p \in ps}

\* cfg.BufferFile
BufferFile == <<SLASH, "note.md">>

\* cfg.NotesDir
Bases == {<<SLASH, "archive">>, <<DOT, SLASH, "notes">>}

\* what an archive file of an earlier run holds
OldEntry == <<"old", NL>>

\* the archive before the run: empty, or with a file for DateA
Archives(b) ==
    LET p == buildMarkdownPath(Note(<<"T">>, DateA, <<>>, <<>>), b).path
    IN  {<<>>, [q \in {p} |-> OldEntry]}

\* the function f extended or changed at path p
Put(f, p, c) == [q \in DOMAIN f \cup {p} |-> IF q = p THEN c ELSE f[q]]

\* the content of the file at p, empty when there is none
ContentOf(f, p) == IF p \in DOMAIN f THEN f[p] ELSE <<>>

-----------------------------------------------------------------------------
(* One run of main (main.go) with notes.ProcessNotes (notes/notes.go) *)

Init ==
    /\ pc = "main"
    /\ base \in Bases
    /\ \E b \in Buffers, a \in Archives(base) : files = Put(a, BufferFile, b)
    /\ files0 = files
    /\ dirs = {}
    /\ data = <<>>
    /\ notes = <<>>
    /\ idx = 0
    /\ err = "nil"
    /\ calls = <<>>
    /\ mainErr = "nil"
    /\ arg = <<>>
    /\ res = <<>>

\* main: fs.ReadFile(cfg.BufferFile) succeeds
ReadBuffer ==
    /\ pc = "main"
    /\ BufferFile \in DOMAIN files
    /\ data' = files[BufferFile]
    /\ pc' = "parse"
    /\ UNCHANGED <<base, files, dirs, files0, notes, idx, err, calls, mainErr, arg, res>>

\* main: fs.ReadFile fails; main logs and returns
ReadBufferFails ==
    /\ pc = "main"
    /\ mainErr' = "read"
    /\ pc' = "done"
    /\ UNCHANGED <<base, files, dirs, files0, data, notes, idx, err, calls, arg, res>>

\* ProcessNotes: notes, err := parseNotes(data)
Parse ==
    /\ pc = "parse"
    /\ LET r == parseNotes(data)
       IN  IF r.err # "nil"
           THEN /\ err' = r.err
                /\ pc' = "return"
                /\ UNCHANGED notes
           ELSE /\ notes' = r.notes
                /\ pc' = "validate"
                /\ UNCHANGED err
    /\ UNCHANGED <<base, files, dirs, files0, data, idx, calls, mainErr, arg, res>>

\* ProcessNotes: the validation loop over all notes
Validate ==
    /\ pc = "validate"
    /\ LET e == ValidateAll(notes)
       IN  IF e # "nil"
           THEN /\ err' = e
                /\ pc' = "return"
                /\ UNCHANGED idx
           ELSE /\ idx' = 1
                /\ pc' = IF notes = <<>> THEN "return" ELSE "mkdir"
                /\ UNCHANGED err
    /\ UNCHANGED <<base, files, dirs, files0, data, notes, calls, mainErr, arg, res>>

\* variant: the loop runs from the last note to the first
NoteAtMut(ns, k) == ns[Len(ns) + 1 - k]
\* the note the write loop handles in its k-th round: for _, note := range notes
NoteAt(ns, k) == ns[k]

Call(op, path, text) == [op |-> op, path |-> path, data |-> text]

\* variant: the error is dropped and the step is taken again
AfterWriteErrorMut == "mkdir"
\* ProcessNotes, write loop: if err != nil { return err }
AfterWriteError == "return"

\* variant: the directory is made at the file's own path
EnsuredDirMut(filePath) == filePath
\* the directory ProcessNotes hands to fs.MkdirAll: filepath.Dir(filePath)
EnsuredDir(filePath) == Dir(filePath)

\* ProcessNotes: buildMarkdownPath, then fs.MkdirAll(filepath.Dir(filePath))
MkdirAll(ok) ==
    /\ pc = "mkdir"
    /\ LET p == buildMarkdownPath(NoteAt(notes, idx), base)
       IN  IF p.err # "nil"
           THEN /\ err' = p.err
                /\ pc' = "return"
                /\ UNCHANGED <<dirs, calls>>
           ELSE /\ calls' = Append(calls, Call("MkdirAll", EnsuredDir(p.path), <<>>))
                /\ IF ok
                   THEN /\ dirs' = dirs \cup {EnsuredDir(p.path)}
                        /\ pc' = "append"
                        /\ UNCHANGED err
                   ELSE /\ err' = "mkdir"
                        /\ pc' = AfterWriteError
                        /\ UNCHANGED dirs
    /\ UNCHANGED <<base, files, files0, data, notes, idx, mainErr, arg, res>>

\* variant: the file is truncated when opened
AppendContentMut(old, text) == text
\* OSFileSystem.AppendToFile: the file's content after a write of text
AppendContent(old, text) == old \o text

\* ProcessNotes: formatNoteContent, then fs.AppendToFile(filePath, fullNote)
AppendToFile ==
    /\ pc = "append"
    /\ LET path == buildMarkdownPath(NoteAt(notes, idx), base).path
           fullNote == formatNoteContent(NoteAt(notes, idx))
       IN  /\ calls' = Append(calls, Call("AppendToFile", path, fullNote))
           /\ files' = Put(files, path, AppendContent(ContentOf(files, path), fullNote))
    /\ idx' = idx + 1
    /\ pc' = IF idx = Len(notes) THEN "return" ELSE "mkdir"
    /\ UNCHANGED <<base, dirs, files0, data, notes, err, mainErr, arg, res>>

\* how much of the text a failed WriteString may have written
PartialLens(text) == {0, Len(text) - 1}

\* AppendToFile fails: OpenFile fails and nothing changes, or WriteString
\* fails after the file was opened (and created) and part of the text written
AppendToFileFails ==
    /\ pc = "append"
    /\ LET path == buildMarkdownPath(NoteAt(notes, idx), base).path
           fullNote == formatNoteContent(NoteAt(notes, idx))
       IN  /\ calls' = Append(calls, Call("AppendToFile", path, fullNote))
           /\ \/ UNCHANGED files
              \/ \E k \in PartialLens(fullNote) :
                    files' = Put(files, path,
                                 AppendContent(ContentOf(files, path), SubSeq(fullNote, 1, k)))
    /\ err' = "append"
    /\ pc' = AfterWriteError
    /\ UNCHANGED <<base, dirs, files0, data, notes, idx, mainErr, arg, res>>

\* variant: the error is not looked at
ClearsBufferMut(e) == TRUE
\* main: whether the buffer is cleared, given what ProcessNotes returned
ClearsBuffer(e) == e = "nil"

\* main: err = notes.ProcessNotes(...); if err != nil { log; return }
Return ==
    /\ pc = "return"
    /\ IF ClearsBuffer(err)
       THEN /\ pc' = "clear"
            /\ UNCHANGED mainErr
       ELSE /\ pc' = "done"
            /\ mainErr' = "process"
    /\ UNCHANGED <<base, files, dirs, files0, data, notes, idx, err, calls, arg, res>>

\* main: fs.WriteFile(cfg.BufferFile, []byte(""), 0o644) succeeds
ClearBuffer ==
    /\ pc = "clear"
    /\ files' = Put(files, BufferFile, <<>>)
    /\ pc' = "done"
    /\ UNCHANGED <<base, dirs, files0, data, notes, idx, err, calls, mainErr, arg, res>>

\* main: fs.WriteFile fails and main logs the error: OpenFile failed and the
\* buffer is as it was, or the file was opened (and truncated) and Close failed
ClearBufferFails ==
    /\ pc = "clear"
    /\ \/ UNCHANGED files
       \/ files' = Put(files, BufferFile, <<>>)
    /\ mainErr' = "clear"
    /\ pc' = "done"
    /\ UNCHANGED <<base, dirs, files0, data, notes, idx, err, calls, arg, res>>

Next ==
    \/ ReadBuffer
    \/ ReadBufferFails
    \/ Parse
    \/ Validate
    \/ MkdirAll(TRUE)
    \/ MkdirAll(FALSE)
    \/ AppendToFile
    \/ AppendToFileFails
    \/ Return
    \/ ClearBuffer
    \/ ClearBufferFails

Spec == Init /\ [][Next]_vars

-----------------------------------------------------------------------------
(* The same run on buffers of valid notes only, up to MaxNotes of them *)

\* the valid notes buffers are put together from
ValidPieces ==
    { Block(TitleLine(<<"T">>) \o DateLine(DateA) \o TagsLine \o ItemLine(<<"a">>),
            <<"Body", NL>>),
      Block(TitleLine(<<"U">>) \o DateLine(DateA), <<"Other", SP, "body", NL>>),
      Block(TitleLine(<<"T">>) \o DateLine(DateB), <<"Body", NL>>) }

InitWrite ==
    /\ pc = "main"
    /\ base \in Bases
    /\ \E b \in BuffersFrom(ValidPieces, MaxNotes), a \in Archives(base) :
          files = Put(a, BufferFile, b)
    /\ files0 = files
    /\ dirs = {}
    /\ data = <<>>
    /\ notes = <<>>
    /\ idx = 0
    /\ err = "nil"
    /\ calls = <<>>
    /\ mainErr = "nil"
    /\ arg = <<>>
    /\ res = <<>>

SpecWrite == InitWrite /\ [][Next]_vars

-----------------------------------------------------------------------------
(* The same run on buffers with empty pairs, text outside of pairs,         *)
(* metadata that does not decode and notes that are not valid               *)

ParsePieces ==
    { \* a valid note
      Block(TitleLine(<<"T">>) \o DateLine(DateA) \o TagsLine \o ItemLine(<<"a">>),
            <<"Body", NL>>),
      \* a note without a date
      Block(TitleLine(<<"T">>), <<"Body", NL>>),
      \* metadata that is not YAML for a note
      Block(TitleLine(<<"T">>) \o <<"Body", NL>>, <<"Body", NL>>),
      \* a block with nothing in it, and one with blank lines only
      Block(<<>>, <<>>),
      Block(<<NL>>, <<SP, NL>>),
      \* a body without metadata
      Block(<<>>, <<"Body", NL>>),
      \* the delimiter alone
      Delimiter,
      \* text without a delimiter
      <<"Body", NL>> }

InitParse ==
    /\ pc = "main"
    /\ base \in Bases
    /\ \E b \in BuffersFrom(ParsePieces, MaxPieces), a \in Archives(base) :
          files = Put(a, BufferFile, b)
    /\ files0 = files
    /\ dirs = {}
    /\ data = <<>>
    /\ notes = <<>>
    /\ idx = 0
    /\ err = "nil"
    /\ calls = <<>>
    /\ mainErr = "nil"
    /\ arg = <<>>
    /\ res = <<>>

SpecParse == InitParse /\ [][Next]_vars

-----------------------------------------------------------------------------
(* The same run on buffers of notes with and without a title, and with     *)
(* dates of every kind: none, empty, on the calendar, off it, not padded   *)

\* the date lines tried: no line, an empty value, dates good and bad
DateLineInputs ==
    {<<>>, DateLine(<<>>)}
    \cup {DateLine(d) : d \in {DateB, DateFeb30,
                               <<"2023", DASH, "13", DASH, "01">>,
                               <<"2023", DASH, "2", DASH, "3">>}}

DatedPieces ==
    {Block(TitleLine(t) \o dl, <<"Body", NL>>) : t \in {<<>>, <<"T">>}, dl \in DateLineInputs}

InitValidate ==
    /\ pc = "main"
    /\ base \in Bases
    /\ \E b \in BuffersFrom(DatedPieces, MaxPieces), a \in Archives(base) :
          files = Put(a, BufferFile, b)
    /\ files0 = files
    /\ dirs = {}
    /\ data = <<>>
    /\ notes = <<>>
    /\ idx = 0
    /\ err = "nil"
    /\ calls = <<>>
    /\ mainErr = "nil"
    /\ arg = <<>>
    /\ res = <<>>

SpecValidate == InitValidate /\ [][Next]_vars

-----------------------------------------------------------------------------
(* buildMarkdownPath on its own: two dates and a base directory *)

\* the dates tried: every year, month and day group below, valid or not
DateInputs ==
    {<<y, DASH, m, DASH, d>> :
        y \in DOMAIN Years,
        m \in {"01", "02", "09", "12", "13", "2"},
        d \in {"01", "12", "28", "29", "30", "31", "3"}}

\* the base directories tried: clean ones, and ones filepath.Join rewrites
BaseInputs ==
    { <<SLASH, "archive">>, <<"notes">>, <<"notes", SLASH, "sub">>,
      <<DOT, SLASH, "notes">>, <<"notes", SLASH>>, <<SLASH>>, <<>>,
      <<"notes", SLASH, DOTDOT, SLASH, "archive">> }

\* the variables a function harness does not use
IdleRun ==
    /\ base = <<>>
    /\ files = <<>>
    /\ files0 = <<>>
    /\ dirs = {}
    /\ data = <<>>
    /\ notes = <<>>
    /\ idx = 0
    /\ err = "nil"
    /\ calls = <<>>
    /\ mainErr = "nil"

UnchangedRun == UNCHANGED <<base, files, dirs, files0, data, notes, idx, err, calls, mainErr>>

InitPath ==
    /\ pc = "path"
    /\ arg \in [d1 : DateInputs, d2 : DateInputs, base : BaseInputs]
    /\ res = <<>>
    /\ IdleRun

\* buildMarkdownPath for the two dates
BuildPaths ==
    /\ pc = "path"
    /\ res' = [p1 |-> buildMarkdownPath(Note(<<"T">>, arg.d1, <<>>, <<>>), arg.base),
               p2 |-> buildMarkdownPath(Note(<<"U">>, arg.d2, <<>>, <<>>), arg.base)]
    /\ pc' = "pathDone"
    /\ UNCHANGED arg
    /\ UnchangedRun

NextPath == BuildPaths

SpecPath == InitPath /\ [][NextPath]_vars

-----------------------------------------------------------------------------
(* formatNoteContent on its own: a valid note, as ProcessNotes hands it over *)

RECURSIVE SeqsUpTo(_, _)
\* the sequences over S of length at most n
SeqsUpTo(S, n) ==
    IF n = 0 THEN {<<>>}
    ELSE LET shorter == SeqsUpTo(S, n - 1)
         IN  shorter \cup {Append(q, x) : q \in shorter, x \in S}

TitleInputs == {<<"T">>, <<"T", SP, "U">>, <<"2024">>, <<KeyDate, SP, "T">>}

TagInputs == {<<"a">>, <<"b">>, <<KeyDate>>}

ContentInputs == {<<>>, <<"Body">>, <<"Body", NL, NL, "Other", SP, "body">>}

InitFormat ==
    /\ pc = "format"
    /\ arg \in {Note(t, d, g, c) :
                   t \in TitleInputs,
                   d \in {DateA, DateB, <<"2024", DASH, "02", DASH, "29">>},
                   g \in SeqsUpTo(TagInputs, MaxTags),
                   c \in ContentInputs}
    /\ res = <<>>
    /\ IdleRun

\* formatNoteContent, with the front matter before and after post-processing
Format ==
    /\ pc = "format"
    /\ res' = [encoded |-> EncodedFrontMatter(arg),
               processed |-> ProcessedFrontMatter(arg),
               block |-> formatNoteContent(arg)]
    /\ pc' = "formatted"
    /\ UNCHANGED arg
    /\ UnchangedRun

NextFormat == Format

SpecFormat == InitFormat /\ [][NextFormat]_vars

-----------------------------------------------------------------------------
(* main run again and again on the same buffer file and archive *)

\* what is kept of a run that has ended: its calls and the error returned
RunRecord == [calls |-> calls, err |-> err, mainErr |-> mainErr]

\* main is started again after it has ended: it reads the buffer file as the
\* run before left it, and the archive as it is now
RunAgain ==
    /\ pc = "done"
    /\ Len(res) + 1 < MaxRuns
    /\ res' = Append(res, RunRecord)
    /\ pc' = "main"
    /\ data' = <<>>
    /\ notes' = <<>>
    /\ idx' = 0
    /\ err' = "nil"
    /\ calls' = <<>>
    /\ mainErr' = "nil"
    /\ UNCHANGED <<base, files, dirs, files0, arg>>

NextRuns == Next \/ RunAgain

SpecRuns == InitWrite /\ [][NextRuns]_vars

-----------------------------------------------------------------------------
(* main run while the note-taking editor has the buffer file open *)

\* the note the editor adds
EditorNote == Block(TitleLine(<<"U">>) \o DateLine(DateB), <<"Other", SP, "body", NL>>)

\* the editor appends its note to the buffer file, once, at any moment
\* before main has ended: before main reads the file, or between the read
\* and the clearing write
EditorAppends ==
    /\ pc # "done"
    /\ BufferFile \in DOMAIN files
    /\ files[BufferFile] = files0[BufferFile]
    /\ files' = Put(files, BufferFile, files[BufferFile] \o EditorNote)
    /\ UNCHANGED <<pc, base, dirs, files0, data, notes, idx, err, calls, mainErr, arg, res>>

NextEditor == Next \/ EditorAppends

SpecEditor == InitWrite /\ [][NextEditor]_vars

-----------------------------------------------------------------------------
(* parseNotes on its own: buffers with dashes inside their lines *)

\* the texts the buffers are put together from: notes as they should be, and
\* notes with three or four dashes inside a title, a tag or a body line
DashPieces ==
    { Block(TitleLine(<<"T">>) \o DateLine(DateA) \o TagsLine \o ItemLine(<<"a">>),
            <<"Body", NL>>),
      Block(TitleLine(<<"U">>) \o DateLine(DateB), <<"Other", SP, "body", NL>>),
      Block(TitleLine(<<"T", DASH, DASH, DASH, "U">>) \o DateLine(DateA), <<"Body", NL>>),
      Block(TitleLine(<<"T">>) \o DateLine(DateA) \o TagsLine
                \o ItemLine(<<"a", DASH, DASH, DASH, "b">>),
            <<"Body", NL>>),
      Block(TitleLine(<<"T">>) \o DateLine(DateA),
            <<"Body", SP, DASH, DASH, DASH, SP, "body", NL>>),
      Block(TitleLine(<<"T">>) \o DateLine(DateA),
            <<"Body", NL, DASH, DASH, DASH, DASH, NL, "Other", NL>>),
      Block(TitleLine(<<"U">>) \o DateLine(DateB),
            <<DASH, DASH, DASH, SP, "Other", NL>>),
      Block(<<>>, <<>>) }

InitSplit ==
    /\ pc = "split"
    /\ arg \in BuffersFrom(DashPieces, MaxPieces)
    /\ res = <<>>
    /\ IdleRun

\* parseNotes: the segments strings.Split yields, and the notes decoded
SplitBuffer ==
    /\ pc = "split"
    /\ res' = [entries |-> Split(arg, Delimiter), parsed |-> parseNotes(arg)]
    /\ pc' = "splitDone"
    /\ UNCHANGED arg
    /\ UnchangedRun

NextSplit == SplitBuffer

SpecSplit == InitSplit /\ [][NextSplit]_vars

-----------------------------------------------------------------------------
(* parseNotes, formatNoteContent and parseNotes again: a block of the buffer *)
(* is decoded, the note written as an archive block, the block decoded       *)

\* titles as they may be written in the metadata: plain, a number, quoted,
\* quoted with an escaped dash
TitleForms ==
    {<<"T">>, <<"T", SP, "U">>, <<"2024">>, <<DQ, "T", DQ>>,
     <<SQ, KeyDate, SP, "T", SQ>>, <<DQ, SP, "T", DQ>>,
     <<DQ, "T", EscDash, DASH, DASH, "U", DQ>>}

\* dates as they may be written: plain, quoted, off the calendar
DateForms == {DateA, DateB, <<DQ>> \o DateA \o <<DQ>>, DateFeb30}

\* tags as they may be written
ItemForms == {<<"a">>, <<"b">>, <<DQ, KeyDate, DQ>>}

RECURSIVE ItemLines(_, _)
\* one line per item, at the given indentation
ItemLines(items, indent) ==
    IF items = <<>> THEN <<>>
    ELSE indent \o <<DASH, SP>> \o Head(items) \o <<NL>> \o ItemLines(Tail(items), indent)

\* the tags part of the metadata: absent, a bare key, an empty flow
\* sequence, or items under the key at an indentation of none or two spaces
TagsForms ==
    {<<>>, TagsLine, <<KeyTags, SP, EmptyFlowSeq, NL>>}
    \cup {TagsLine \o ItemLines(items, indent) :
             items \in SeqsUpTo(ItemForms, MaxTags) \ {<<>>},
             indent \in {<<>>, <<SP, SP>>}}

InitRoundTrip ==
    /\ pc = "trip"
    /\ arg \in [title : TitleForms, date : DateForms, tags : TagsForms,
                content : ContentInputs \cup {<<"Body", NL>>}]
    /\ res = <<>>
    /\ IdleRun

\* what a round trip yields when the block does not give one valid note
NoTrip == [valid |-> FALSE]

\* the block is decoded; if it gives a valid note, the note is written as
\* an archive block, and the front matter and the block are decoded again
RoundTrip ==
    /\ pc = "trip"
    /\ LET buffer == Block(TitleLine(arg.title) \o DateLine(arg.date) \o arg.tags,
                           arg.content)
           first == parseNotes(buffer)
       IN  IF first.err = "nil" /\ Len(first.notes) = 1
              /\ validateNote(first.notes[1]) = "nil"
           THEN res' = [valid |-> TRUE,
                        note |-> first.notes[1],
                        frontMatter |-> ProcessedFrontMatter(first.notes[1]),
                        decoded |-> Unmarshal(ProcessedFrontMatter(first.notes[1])),
                        block |-> formatNoteContent(first.notes[1]),
                        again |-> parseNotes(formatNoteContent(first.notes[1]))]
           ELSE res' = NoTrip
    /\ pc' = "tripped"
    /\ UNCHANGED arg
    /\ UnchangedRun

NextRoundTrip == RoundTrip

SpecRoundTrip == InitRoundTrip /\ [][NextRoundTrip]_vars

-----------------------------------------------------------------------------
(* config.InitializeWithArgs (config/config.go): the command line, the      *)
(* config file, the defaults, the buffer file                               *)

\* os.UserHomeDir()
HomeDir == <<SLASH, "home">>

\* filepath.Join(homeDir, ".config", dirName, name)
InConfigDir(name) == Join(Join(Join(HomeDir, <<".config">>), <<"chrononoteai">>), name)

DefaultConfigPath == InConfigDir(<<"config.json">>)
DefaultBufferFile == InConfigDir(<<"note.md">>)
DefaultNotesDir == InConfigDir(<<"notes">>)

\* a config file elsewhere, and the values given by flags and stored in files
OtherConfigPath == <<SLASH, "etc", SLASH, "config.json">>
FlagBuffer == <<SLASH, "tmp", SLASH, "buffer.md">>
FlagNotes == <<SLASH, "tmp", SLASH, "notes">>
StoredBuffer == <<SLASH, "tmp", SLASH, "test_buffer.md">>
StoredNotes == <<SLASH, "tmp", SLASH, "test_notes">>

\* the text of a config file: a JSON object, or text that is not JSON
JsonText(obj) == [ok |-> TRUE, obj |-> obj]
Malformed == [ok |-> FALSE, obj |-> <<>>]

\* the names of the fields of Config in JSON: the tags of BufferFile and
\* NotesDir, and the field name of ConfigFile, which has no tag
JsonKeys == {"buffer_file", "notes_dir", "ConfigFile"}

FieldOf(key) ==
    IF key = "buffer_file" THEN "BufferFile"
    ELSE IF key = "notes_dir" THEN "NotesDir"
    ELSE "ConfigFile"

\* json.MarshalIndent(c, "", "  ")
MarshalConfig(c) == JsonText([k \in JsonKeys |-> c[FieldOf(k)]])

\* json.Unmarshal(data, config): the fields whose keys the object has are set
UnmarshalConfig(text, c) ==
    [f \in DOMAIN c |->
        IF \E k \in JsonKeys \cap DOMAIN text.obj : FieldOf(k) = f
        THEN text.obj[CHOOSE k \in JsonKeys \cap DOMAIN text.obj : FieldOf(k) = f]
        ELSE c[f]]

\* &Config{ConfigFile: configPath}
NewConfig(configPath) ==
    [BufferFile |-> <<>>, NotesDir |-> <<>>, ConfigFile |-> configPath]

\* Config.setDefaults
setDefaults(c) == [c EXCEPT !.BufferFile = DefaultBufferFile, !.NotesDir = DefaultNotesDir]

\* the config path of the run: the -config flag, by default the per-user file
ConfigPathOf(a) == IF a.config = <<>> THEN DefaultConfigPath ELSE a.config

\* a file can be created or written at p: p has a name and its directory exists
Writable(p, ds) == p # <<>> /\ Dir(p) \in ds

\* what a config file may hold before the run: what Save wrote for this path
\* or for another one (a file copied or moved), an object written by hand
\* with the two keys or with one, text that is not JSON
ConfigTexts ==
    {MarshalConfig([BufferFile |-> StoredBuffer, NotesDir |-> StoredNotes, ConfigFile |-> q]) :
        q \in {DefaultConfigPath, OtherConfigPath}}
    \cup {JsonText([buffer_file |-> StoredBuffer, notes_dir |-> StoredNotes]),
          JsonText([buffer_file |-> StoredBuffer]),
          Malformed}

\* the disks a run may start on: either config file absent or present, the
\* stored buffer file absent or holding a note
Disks ==
    {[p \in P |-> IF p = StoredBuffer THEN <<"note", NL>> ELSE t[p]] :
        P \in SUBSET {DefaultConfigPath, OtherConfigPath, StoredBuffer},
        t \in [{DefaultConfigPath, OtherConfigPath} -> ConfigTexts]}

InitConfig ==
    /\ pc = "args"
    /\ arg \in [config : {<<>>, OtherConfigPath},
                buffer : {<<>>, FlagBuffer},
                notes : {<<>>, FlagNotes}]
    /\ files \in Disks
    /\ files0 = files
    /\ dirs = {Dir(p) : p \in DOMAIN files} \cup {<<SLASH, "tmp">>}
    /\ res = <<>>
    /\ err = "nil"
    /\ base = <<>>
    /\ data = <<>>
    /\ notes = <<>>
    /\ idx = 0
    /\ calls = <<>>
    /\ mainErr = "nil"

UnchangedNotes == UNCHANGED <<base, data, notes, idx, calls, mainErr, files0, arg>>

\* InitializeWithArgs: os.UserHomeDir and fs.Parse succeed
ParseArgs ==
    /\ pc = "args"
    /\ pc' = "load"
    /\ UNCHANGED <<files, dirs, res, err>>
    /\ UnchangedNotes

\* InitializeWithArgs: os.UserHomeDir or fs.Parse fails
ParseArgsFails ==
    /\ pc = "args"
    /\ err' = "args"
    /\ pc' = "initFailed"
    /\ UNCHANGED <<files, dirs, res>>
    /\ UnchangedNotes

\* LoadConfig succeeds: without a config file the defaults are set, the
\* directory made and the config saved; with one it is read and decoded
LoadConfig ==
    /\ pc = "load"
    /\ LET configPath == ConfigPathOf(arg)
           config == NewConfig(configPath)
       IN  IF configPath \notin DOMAIN files
           THEN /\ res' = setDefaults(config)
                /\ dirs' = dirs \cup {Dir(configPath)}
                /\ files' = Put(files, configPath, MarshalConfig(setDefaults(config)))
           ELSE /\ files[configPath].ok
                /\ res' = UnmarshalConfig(files[configPath], config)
                /\ UNCHANGED <<files, dirs>>
    /\ pc' = "override"
    /\ UNCHANGED err
    /\ UnchangedNotes

\* LoadConfig fails: MkdirAll fails, Save fails after the file was or was not
\* opened, ReadFile fails, or the text is not JSON
LoadConfigFails ==
    /\ pc = "load"
    /\ LET configPath == ConfigPathOf(arg)
       IN  IF configPath \notin DOMAIN files
           THEN \/ UNCHANGED <<files, dirs>>
                \/ /\ dirs' = dirs \cup {Dir(configPath)}
                   /\ \/ UNCHANGED files
                      \/ files' = Put(files, configPath, Malformed)
           ELSE UNCHANGED <<files, dirs>>
    /\ err' = "load"
    /\ pc' = "initFailed"
    /\ UNCHANGED res
    /\ UnchangedNotes

\* InitializeWithArgs: the values of the flags that are not empty
Overridden(c, a) ==
    [c EXCEPT !.BufferFile = IF a.buffer # <<>> THEN a.buffer ELSE @,
              !.NotesDir = IF a.notes # <<>> THEN a.notes ELSE @]

\* InitializeWithArgs: updated
Updated(a) == a.buffer # <<>> \/ a.notes # <<>>

\* InitializeWithArgs: the flags override the config and, if one did, the
\* config is saved: os.WriteFile(c.ConfigFile, data, 0o644)
Override ==
    /\ pc = "override"
    /\ res' = Overridden(res, arg)
    /\ IF Updated(arg)
       THEN /\ Writable(res.ConfigFile, dirs)
            /\ files' = Put(files, res.ConfigFile, MarshalConfig(Overridden(res, arg)))
       ELSE UNCHANGED files
    /\ pc' = "buffer"
    /\ UNCHANGED <<dirs, err>>
    /\ UnchangedNotes

\* InitializeWithArgs: cfg.Save fails, with the file not opened or truncated
OverrideSaveFails ==
    /\ pc = "override"
    /\ Updated(arg)
    /\ res' = Overridden(res, arg)
    /\ \/ UNCHANGED files
       \/ /\ Writable(res.ConfigFile, dirs)
          /\ files' = Put(files, res.ConfigFile, Malformed)
    /\ err' = "save"
    /\ pc' = "initFailed"
    /\ UNCHANGED dirs
    /\ UnchangedNotes

\* variant: the buffer file is created whether or not it is there
BufferFileNeededMut(c, fs) == TRUE
\* CreateBufferFileIfNeeded: os.Stat(c.BufferFile) finds no file
BufferFileNeeded(c, fs) == c.BufferFile \notin DOMAIN fs

\* CreateBufferFileIfNeeded: the buffer file is there, or os.Create makes it
CreateBufferFileIfNeeded ==
    /\ pc = "buffer"
    /\ IF ~BufferFileNeeded(res, files) THEN UNCHANGED files
       ELSE /\ Writable(res.BufferFile, dirs)
            /\ files' = Put(files, res.BufferFile, <<>>)
    /\ pc' = "initialized"
    /\ UNCHANGED <<dirs, res, err>>
    /\ UnchangedNotes

\* CreateBufferFileIfNeeded: os.Create or Close fails
CreateBufferFileFails ==
    /\ pc = "buffer"
    /\ BufferFileNeeded(res, files)
    /\ \/ UNCHANGED files
       \/ /\ Writable(res.BufferFile, dirs)
          /\ files' = Put(files, res.BufferFile, <<>>)
    /\ err' = "create"
    /\ pc' = "initFailed"
    /\ UNCHANGED <<dirs, res>>
    /\ UnchangedNotes

NextConfig ==
    \/ ParseArgs
    \/ ParseArgsFails
    \/ LoadConfig
    \/ LoadConfigFails
    \/ Override
    \/ OverrideSaveFails
    \/ CreateBufferFileIfNeeded
    \/ CreateBufferFileFails

SpecConfig == InitConfig /\ [][NextConfig]_vars

-----------------------------------------------------------------------------
(* The program: the start-up, config.Initialize, and the run of main on the *)
(* buffer file it has made sure of                                          *)

NextProgram == NextConfig \/ Next

SpecProgram == (InitConfig \/ InitParse) /\ [][NextProgram]_vars

-----------------------------------------------------------------------------
(* Vocabulary of the properties *)

\* the buffer as it was when the run started
Buffer0 == files0[BufferFile]

\* the calls of one operation, in order
CallsOf(op) == SelectSeq(calls, LAMBDA c : c.op = op)

IsPrefix(a, b) == Len(a) <= Len(b) /\ SubSeq(b, 1, Len(a)) = a

\* ProcessNotes has returned to main
Returned == pc \in {"return", "clear", "done"} /\ mainErr # "read"

\* ProcessNotes has returned nil
Succeeded == Returned /\ err = "nil"

\* the metadata segments of a buffer, in order: the segments at the odd
\* positions 1, 3, 5, ... of the split text (counting from 0)
MetadataOf(d) ==
    LET entries == Split(d, Delimiter)
    IN  [j \in 1..(Len(entries) \div 2) |-> entries[2 * j]]

\* the body segments that follow them; empty where the text ends before
BodiesOf(d) ==
    LET entries == Split(d, Delimiter)
    IN  [j \in 1..(Len(entries) \div 2) |->
            IF 2 * j + 1 <= Len(entries) THEN entries[2 * j + 1] ELSE <<>>]

\* the archive and the directories are as they were when the run started
ArchiveUntouched == files = files0 /\ dirs = {} /\ calls = <<>>

-----------------------------------------------------------------------------
(* C1: all-or-nothing validation.  Whenever one of the decoded notes is      *)
(* invalid (empty title, empty date, or a date that does not parse),         *)
(* wherever it sits, ProcessNotes returns an error and has made no MkdirAll  *)
(* and no AppendToFile call: no file is created or modified.                 *)
C1_AllOrNothingValidation ==
    (\E k \in 1..Len(notes) : validateNote(notes[k]) # "nil")
        => /\ ArchiveUntouched
           /\ pc \in {"validate", "return", "done"}
           /\ pc # "validate" => err \in {"missing title", "missing date", "invalid date"}

\* a finished run whose first note is valid and whose second is not
C1_Witness ==
    /\ pc = "done"
    /\ Len(notes) = 2
    /\ validateNote(notes[1]) = "nil"
    /\ validateNote(notes[2]) # "nil"
    /\ err # "nil"
    /\ ArchiveUntouched

(* C2: a decode failure aborts the whole run.  Whenever a metadata segment   *)
(* of the buffer read fails to decode, ProcessNotes returns the decode error *)
(* and makes no MkdirAll or AppendToFile call, also not for the well-formed  *)
(* notes before that segment.                                                *)
C2_DecodeFailureAborts ==
    (/\ pc \notin {"main", "parse"}
     /\ mainErr # "read"
     /\ LET ms == MetadataOf(data)
        IN  \E j \in 1..Len(ms) : Unmarshal(ms[j]).err # "nil")
        => /\ err = "decode"
           /\ notes = <<>>
           /\ ArchiveUntouched
           /\ pc \in {"return", "done"}

\* a finished run: the first block is a valid note, the second does not decode
C2_Witness ==
    /\ pc = "done"
    /\ err = "decode"
    /\ Len(MetadataOf(data)) = 2
    /\ LET n == Unmarshal(MetadataOf(data)[1])
       IN  /\ n.err = "nil"
           /\ validateNote(Note(n.Title, n.Date, n.Tags, <<>>)) = "nil"
    /\ Unmarshal(MetadataOf(data)[2]).err # "nil"
    /\ ArchiveUntouched

(* C3: main overwrites the buffer file only after ProcessNotes returned nil; *)
(* in a run where reading the buffer fails or ProcessNotes returns an error, *)
(* the buffer file at the end holds what it held at the start.               *)
C3_BufferClearedOnlyOnSuccess ==
    /\ files[BufferFile] # Buffer0
          => pc = "done" /\ err = "nil" /\ mainErr \in {"nil", "clear"}
    /\ pc = "clear" => err = "nil" /\ mainErr = "nil"
    /\ pc = "done" /\ (mainErr = "read" \/ err # "nil") => files[BufferFile] = Buffer0

\* a run that failed in the write phase, with notes still in the buffer
C3_Witness ==
    /\ pc = "done"
    /\ err = "append"
    /\ mainErr = "process"
    /\ files[BufferFile] = Buffer0
    /\ Buffer0 # <<>>

(* C4: ProcessNotes calls only MkdirAll and AppendToFile, never on the       *)
(* buffer file, which it leaves as it is; and what an archive file held      *)
(* before the run is a prefix of what it holds afterwards.                   *)
C4_AppendOnly ==
    /\ \A k \in 1..Len(calls) :
          calls[k].op \in {"MkdirAll", "AppendToFile"} /\ calls[k].path # BufferFile
    /\ pc \in {"parse", "validate", "mkdir", "append", "return"}
          => files[BufferFile] = Buffer0
    /\ \A p \in DOMAIN files0 \ {BufferFile} :
          p \in DOMAIN files /\ IsPrefix(files0[p], files[p])

\* an archive file of an earlier run has grown
C4_Witness ==
    \E p \in DOMAIN files0 \ {BufferFile} :
        /\ files0[p] # <<>>
        /\ Len(files[p]) > Len(files0[p])
        /\ Len(CallsOf("AppendToFile")) = 2

\* the pairs of a buffer whose metadata or body is not empty after trimming
NonEmptyPairs(d) ==
    LET ms == MetadataOf(d)
        bs == BodiesOf(d)
    IN  {j \in 1..Len(ms) : TrimSpace(ms[j]) # <<>> \/ TrimSpace(bs[j]) # <<>>}

\* C5 as stated: for any buffer, the run makes as many AppendToFile calls as
\* the buffer has pairs with non-empty metadata or body.
C5_BlocksEqualPairs_Original ==
    pc = "done" /\ mainErr # "read"
        => Len(CallsOf("AppendToFile")) = Cardinality(NonEmptyPairs(data))

(* C5, amended: for any buffer on which ProcessNotes returns nil, the number *)
(* of AppendToFile calls of the run equals the number of delimiter-bounded   *)
(* pairs whose metadata or body is non-empty after trimming.                 *)
C5_BlocksEqualPairs ==
    Succeeded => Len(CallsOf("AppendToFile")) = Cardinality(NonEmptyPairs(data))

\* a successful run over two pairs, one of them empty and dropped
C5_Witness ==
    /\ pc = "done"
    /\ Succeeded
    /\ Len(MetadataOf(data)) = 2
    /\ Cardinality(NonEmptyPairs(data)) = 1
    /\ Len(CallsOf("AppendToFile")) = 1

-----------------------------------------------------------------------------
\* base/YYYY/MM/DD.md, put together from the text of the date itself
ClaimedPath(b, d) == b \o <<SLASH, d[1], SLASH, d[3], SLASH, d[5], ".md">>

\* C6 as stated: for every valid date and every base directory the path is
\* exactly base/YYYY/MM/DD.md.
C6_ArchivePath_Original ==
    pc = "pathDone" /\ ParseDate(arg.d1).ok
        => res.p1.err = "nil" /\ res.p1.path = ClaimedPath(arg.base, arg.d1)

(* C6, amended: for every note with a valid date YYYY-MM-DD the resolved     *)
(* path is filepath.Join(base, YYYY/MM/DD.md): the lexically cleaned form of *)
(* base/YYYY/MM/DD.md for a non-empty base, the relative path YYYY/MM/DD.md  *)
(* for an empty base.  Its last three elements are the date's own four-digit *)
(* year, two-digit month and two-digit day with .md; it is exactly           *)
(* base/YYYY/MM/DD.md when base is a non-empty clean path other than the     *)
(* root.  The same date always gives the same path, and two different valid  *)
(* dates never give the same path.                                           *)
C6_ArchivePath ==
    pc = "pathDone" =>
        /\ ParseDate(arg.d1).ok =>
              /\ res.p1.err = "nil"
              /\ res.p1.path =
                    IF arg.base = <<>> THEN Tail(ClaimedPath(arg.base, arg.d1))
                    ELSE Clean(ClaimedPath(arg.base, arg.d1))
              /\ LET n == Len(res.p1.path)
                 IN  /\ n >= 6
                     /\ SubSeq(res.p1.path, n - 5, n)
                           = <<arg.d1[1], SLASH, arg.d1[3], SLASH, arg.d1[5], ".md">>
              /\ (arg.base # <<>> /\ arg.base # <<SLASH>> /\ Clean(arg.base) = arg.base)
                    => res.p1.path = ClaimedPath(arg.base, arg.d1)
        /\ ParseDate(arg.d1).ok /\ ParseDate(arg.d2).ok
              => (res.p1.path = res.p2.path <=> arg.d1 = arg.d2)

\* two valid dates of the same month, under a base that Join rewrites
C6_Witness ==
    /\ pc = "pathDone"
    /\ arg.base = <<DOT, SLASH, "notes">>
    /\ arg.d1 = DateA
    /\ arg.d2 = <<"2024", DASH, "09", DASH, "01">>
    /\ res.p1.path = <<"notes", SLASH, "2024", SLASH, "09", SLASH, "12", ".md">>
    /\ res.p2.path # res.p1.path

-----------------------------------------------------------------------------
\* the words of the model: lexemes made of letters
Words == {"T", "U", "a", "b", "Body", "Other", "body"}

\* words separated by single spaces: text a YAML encoder writes as it is
PlainText(s) ==
    /\ s # <<>>
    /\ s[1] \in Words
    /\ \A i \in 2..Len(s) : s[i] \in Words \cup {SP} /\ (s[i] = SP => s[i - 1] \in Words)
    /\ s[Len(s)] \in Words

PlainNote(n) == PlainText(n.Title) /\ \A k \in 1..Len(n.Tags) : PlainText(n.Tags[k])

RECURSIVE TagLines(_, _)
\* one line per tag: the indentation, a dash, a space, the tag
TagLines(tags, indent) ==
    IF tags = <<>> THEN <<>>
    ELSE indent \o <<DASH, SP>> \o Head(tags) \o <<NL>> \o TagLines(Tail(tags), indent)

\* the block as C7 states it: tag lines indented by two spaces
ClaimedBlock(n) ==
    <<DASH, DASH, DASH, NL, KeyTitle, SP>> \o n.Title
    \o <<NL, KeyDate, SP>> \o n.Date
    \o <<NL, KeyTags, NL>> \o TagLines(n.Tags, <<SP, SP>>)
    \o <<DASH, DASH, DASH, NL>> \o n.Content \o <<NL, NL>>

\* the block as amended: tag lines indented by four spaces, "tags: []" when
\* the note has no tags
AmendedBlock(n) ==
    <<DASH, DASH, DASH, NL, KeyTitle, SP>> \o n.Title
    \o <<NL, KeyDate, SP>> \o n.Date
    \o (IF n.Tags = <<>> THEN <<NL, KeyTags, SP, EmptyFlowSeq, NL>>
        ELSE <<NL, KeyTags, NL>> \o TagLines(n.Tags, <<SP, SP, SP, SP>>))
    \o <<DASH, DASH, DASH, NL>> \o n.Content \o <<NL, NL>>

\* the example of C7: the buffer, the archive base, the archive file
ExampleBuffer ==
    <<DASH, DASH, DASH, NL, KeyTitle, SP, "T", NL, KeyDate, SP, "2024", DASH, "09", DASH, "12",
      NL, KeyTags, NL, SP, SP, DASH, SP, "a", NL, DASH, DASH, DASH, NL, "Body">>

ExampleBase == <<SLASH, "archive">>

ExamplePath == <<SLASH, "archive", SLASH, "2024", SLASH, "09", SLASH, "12", ".md">>

\* a successful run of the example on an empty archive
ExampleRun ==
    /\ Buffer0 = ExampleBuffer
    /\ base = ExampleBase
    /\ DOMAIN files0 = {BufferFile}
    /\ Succeeded

-----------------------------------------------------------------------------
C9_DateLineUnquoted ==
    pc = "formatted" =>
        LET e == Lines(res.encoded)
            q == Lines(res.processed)
        IN  /\ Len(q) = Len(e)
            /\ q[2] = <<KeyDate, SP>> \o arg.Date
            /\ \A k \in 1..Len(e) : k # 2 => q[k] = e[k]
            /\ res.block = Delimiter \o <<NL>> \o res.processed \o Delimiter \o <<NL>>
                              \o arg.Content \o <<NL, NL>>

\* the encoder quoted the date, and a title and a tag hold the text "date:"
C9_Witness ==
    /\ pc = "formatted"
    /\ Lines(res.encoded)[2] = <<KeyDate, SP, DQ>> \o arg.Date \o <<DQ>>
    /\ Lines(res.processed)[2] = <<KeyDate, SP>> \o arg.Date
    /\ arg.Title = <<KeyDate, SP, "T">>
    /\ arg.Tags = <<<<"a">>, <<KeyDate>>>>

\* the blocks of the notes whose archive path is p, in the order of ns
RECURSIVE BlocksFor(_, _, _)
BlocksFor(ns, p, b) ==
    IF ns = <<>> THEN <<>>
    ELSE (IF buildMarkdownPath(Head(ns), b).path = p
          THEN formatNoteContent(Head(ns)) ELSE <<>>)
         \o BlocksFor(Tail(ns), p, b)

(* C10: in a successful run there is one AppendToFile call per note, in the  *)
(* order of the notes in the buffer (not sorted by date), so every archive   *)
(* file holds what it held before followed by the blocks of the notes of     *)
(* its day, in input order, each block whole.                                *)
C10_AppendsInBufferOrder ==
    Succeeded =>
        /\ Len(CallsOf("AppendToFile")) = Len(notes)
        /\ \A i \in 1..Len(notes) :
              /\ CallsOf("AppendToFile")[i].path = buildMarkdownPath(notes[i], base).path
              /\ CallsOf("AppendToFile")[i].data = formatNoteContent(notes[i])
        /\ \A p \in DOMAIN files \ {BufferFile} :
              files[p] = ContentOf(files0, p) \o BlocksFor(notes, p, base)

\* two notes of the same day, with different titles, filed behind an old entry
C10_Witness ==
    /\ pc = "done"
    /\ Succeeded
    /\ Len(notes) = 2
    /\ notes[1].Date = notes[2].Date
    /\ notes[1].Title = <<"U">> /\ notes[2].Title = <<"T">>
    /\ LET p == buildMarkdownPath(notes[1], base).path
       IN  /\ p \in DOMAIN files0
           /\ files[p] = files0[p] \o formatNoteContent(notes[1])
                           \o formatNoteContent(notes[2])

-----------------------------------------------------------------------------
\* the archive path of a note of the run
PathOf(n) == buildMarkdownPath(n, base).path

\* a write-phase step has failed: MkdirAll or AppendToFile returned an error
WriteFailed == err \in {"mkdir", "append"}

(* C11: a write-phase failure is not rolled back.  When MkdirAll or          *)
(* AppendToFile fails for the k-th note, ProcessNotes returns that error,    *)
(* the failing call is the last call made, notes 1..k-1 each had their       *)
(* MkdirAll and AppendToFile and their blocks are still in the archive       *)
(* behind what the files held before, and no call is made for a later note.  *)
C11_WriteFailureNotRolledBack ==
    WriteFailed =>
        LET k == idx
            last == calls[Len(calls)]
        IN  /\ pc \in {"return", "done"}
            /\ pc = "done" => mainErr = "process"
            /\ k \in 1..Len(notes)
            /\ Len(calls) = 2 * (k - 1) + (IF err = "mkdir" THEN 1 ELSE 2)
            /\ \A i \in 1..(k - 1) :
                  /\ calls[2 * i - 1] = Call("MkdirAll", Dir(PathOf(notes[i])), <<>>)
                  /\ calls[2 * i] = Call("AppendToFile", PathOf(notes[i]),
                                         formatNoteContent(notes[i]))
            /\ last.op = (IF err = "mkdir" THEN "MkdirAll" ELSE "AppendToFile")
            /\ last.path = (IF err = "mkdir" THEN Dir(PathOf(notes[k])) ELSE PathOf(notes[k]))
            /\ \A i \in 1..(k - 1) : PathOf(notes[i]) \in DOMAIN files
            /\ \A p \in DOMAIN files \ {BufferFile} :
                  LET kept == ContentOf(files0, p) \o BlocksFor(SubSeq(notes, 1, k - 1), p, base)
                      whole == kept \o formatNoteContent(notes[k])
                  IN  /\ IsPrefix(kept, files[p])
                      /\ (err = "mkdir" \/ p # PathOf(notes[k])) => files[p] = kept
                      /\ IsPrefix(files[p], whole) /\ files[p] # whole

\* three notes of one buffer: the first is filed, the append of the second
\* fails, nothing is done for the third, and the first one's block is there
C11_Witness ==
    /\ pc = "done"
    /\ err = "append"
    /\ Len(notes) = 3
    /\ idx = 2
    /\ Len(calls) = 4
    /\ PathOf(notes[3]) # PathOf(notes[1])
    /\ PathOf(notes[3]) \notin DOMAIN files
    /\ files[PathOf(notes[1])]
          = ContentOf(files0, PathOf(notes[1])) \o formatNoteContent(notes[1])

-----------------------------------------------------------------------------
\* every pair of the buffer has blank metadata and a blank body; so it is
\* for a buffer without pairs: the empty one, one without a delimiter
OnlyEmptyPairs(d) == NonEmptyPairs(d) = {}

\* no archive file and no directory was made or changed
ArchiveAsBefore ==
    /\ DOMAIN files = DOMAIN files0
    /\ \A p \in DOMAIN files \ {BufferFile} : files[p] = files0[p]
    /\ dirs = {}

(* C12: a buffer that yields only empty pairs is not an error and produces   *)
(* nothing.  For the buffer "---" alone, the empty buffer, a buffer without  *)
(* a delimiter, and any buffer whose pairs all have blank metadata and a     *)
(* blank body, ProcessNotes decodes no note, returns nil and makes no        *)
(* MkdirAll and no AppendToFile call.                                        *)
C12_EmptyPairsYieldNothing ==
    (pc \notin {"main", "parse"} /\ mainErr # "read" /\ OnlyEmptyPairs(data))
        => /\ err = "nil"
           /\ notes = <<>>
           /\ calls = <<>>
           /\ ArchiveAsBefore
           /\ pc \in {"validate", "return", "clear", "done"}

\* the run on the buffer "---" has ended without an error and without a call
C12_Witness ==
    /\ pc = "done"
    /\ Buffer0 = Delimiter
    /\ data = Delimiter
    /\ Succeeded
    /\ mainErr = "nil"
    /\ calls = <<>>

-----------------------------------------------------------------------------
\* the dates of the calendar, written YYYY-MM-DD with month and day padded
CalendarDates ==
    UNION {{<<y, DASH, Pad2[m], DASH, Pad2[d]>> : d \in 1..DaysIn(m, Years[y])} :
              y \in DOMAIN Years, m \in 1..12}

\* the error C13 gives a note
ClaimedError(n) ==
    IF n.Title = <<>> THEN "missing title"
    ELSE IF n.Date = <<>> THEN "missing date"
    ELSE IF n.Date \notin CalendarDates THEN "invalid date"
    ELSE "nil"

\* the validation loop is over
Validated == pc \in {"mkdir", "append", "return", "clear", "done"} /\ mainErr # "read"

-----------------------------------------------------------------------------
\* the config file of the run, and the value a config text holds for a key
ConfigPath == ConfigPathOf(arg)
Stored(text, key) == IF key \in DOMAIN text.obj THEN text.obj[key] ELSE <<>>

\* InitializeWithArgs has returned a config and no error
Initialized == pc = "initialized"

\* the value C14 gives a setting: the flag, else the config file's, else the default
Precedence(flag, key, default) ==
    IF flag # <<>> THEN flag
    ELSE IF ConfigPath \in DOMAIN files0 THEN Stored(files0[ConfigPath], key)
    ELSE default

\* the returned values follow flag, then config file, then default
C14_ValuesByPrecedence ==
    Initialized =>
        /\ res.BufferFile = Precedence(arg.buffer, "buffer_file", DefaultBufferFile)
        /\ res.NotesDir = Precedence(arg.notes, "notes_dir", DefaultNotesDir)

\* the config file exists and holds the returned values
C14_FileHoldsReturned ==
    Initialized =>
        /\ ConfigPath \in DOMAIN files
        /\ files[ConfigPath].ok
        /\ Stored(files[ConfigPath], "buffer_file") = res.BufferFile
        /\ Stored(files[ConfigPath], "notes_dir") = res.NotesDir

\* without an override an existing config file is left as it is
C14_UnchangedWithoutFlags ==
    (Initialized /\ ~Updated(arg) /\ ConfigPath \in DOMAIN files0)
        => files[ConfigPath] = files0[ConfigPath]

(* C14: after InitializeWithArgs succeeds the returned BufferFile and        *)
(* NotesDir are, each on its own, the flag's value when the flag is not      *)
(* empty, otherwise the config file's value, otherwise (no config file) the  *)
(* default; the config file then exists and holds the returned values; and   *)
(* without an override flag an existing config file is left unchanged.       *)
C14_ConfigPrecedence ==
    /\ C14_ValuesByPrecedence
    /\ C14_FileHoldsReturned
    /\ C14_UnchangedWithoutFlags

-----------------------------------------------------------------------------
\* the lines of a text that consist of the delimiter and nothing else
DelimiterLines(d) == {k \in 1..Len(Lines(d)) : Lines(d)[k] = Delimiter}

\* no line but the delimiter lines holds three dashes in a row
Unbroken(d) ==
    \A k \in 1..Len(Lines(d)) :
        Lines(d)[k] # Delimiter =>
            \A i \in 1..Len(Lines(d)[k]) : ~HasPrefixAt(Lines(d)[k], i, Delimiter)

(* C15: the buffer is cut only at delimiter lines.  There are as many        *)
(* segment boundaries as the buffer has lines that are exactly ---; three    *)
(* dashes inside a line, in a title, a tag or a body, or as part of ----,    *)
(* make no boundary, and the notes decoded are those of the delimiter lines. *)
C15_CutsOnlyAtDelimiterLines ==
    pc = "splitDone" =>
        /\ Len(res.entries) = 1 + Cardinality(DelimiterLines(arg))
        /\ res.parsed.err = "nil" => 2 * Len(res.parsed.notes) <= Cardinality(DelimiterLines(arg))

\* C15 holds for the buffers without dashes inside a line
C15_HoldsForUnbroken ==
    (pc = "splitDone" /\ Unbroken(arg)) =>
        Len(res.entries) = 1 + Cardinality(DelimiterLines(arg))

-----------------------------------------------------------------------------
\* the pairs of a buffer that parseNotes does not drop, in order
LivePairs(d) ==
    LET ms == MetadataOf(d)
        bs == BodiesOf(d)
    IN  SelectSeq([j \in 1..Len(ms) |-> [metadata |-> ms[j], content |-> TrimSpace(bs[j])]],
                  LAMBDA pr : ~SkipPair(pr.metadata, pr.content))

(* C16: all metadata is decoded before any note is validated.  When a       *)
(* segment of the buffer is malformed ProcessNotes returns the decode error, *)
(* also when a note before it is invalid.  When all segments decode, there   *)
(* is a note for every pair not dropped; a pair with blank metadata and a    *)
(* body gives a note with an empty title, for which validation returns       *)
(* "missing title", and the run ends with an error and without a call: with  *)
(* "missing title" itself unless a note before it is invalid too.            *)
C16_DecodeAllThenValidateAll ==
    (pc \notin {"main", "parse"} /\ mainErr # "read") =>
        LET live == LivePairs(data)
        IN  IF \E j \in 1..Len(live) : Unmarshal(live[j].metadata).err # "nil"
            THEN err = "decode" /\ notes = <<>> /\ calls = <<>>
            ELSE /\ Len(notes) = Len(live)
                 /\ \A j \in 1..Len(live) :
                       TrimSpace(live[j].metadata) = <<>> =>
                           /\ notes[j].Title = <<>>
                           /\ notes[j].Content = live[j].content
                           /\ validateNote(notes[j]) = "missing title"
                           /\ calls = <<>>
                           /\ pc \in {"validate", "return", "done"}
                           /\ pc # "validate" => err # "nil"
                           /\ (pc # "validate" /\ \A i \in 1..(j - 1) : validateNote(notes[i]) = "nil")
                                 => err = "missing title"

\* a finished run: the first pair decodes to an invalid note, the second is
\* malformed, and the error is the decode error
C16_Witness ==
    /\ pc = "done"
    /\ Len(LivePairs(data)) = 2
    /\ LET n == Unmarshal(LivePairs(data)[1].metadata)
       IN  /\ n.err = "nil"
           /\ validateNote(Note(n.Title, n.Date, n.Tags, <<>>)) = "missing date"
    /\ Unmarshal(LivePairs(data)[2].metadata).err # "nil"
    /\ err = "decode"
    /\ calls = <<>>

-----------------------------------------------------------------------------
(* C17: in the write phase every AppendToFile call comes right after a       *)
(* MkdirAll call on the parent directory of its path, made for the same note *)
(* and successful; the i-th append is for the i-th note; and after a failed  *)
(* MkdirAll there is no append for that note and no further call.            *)
C17_MkdirBeforeAppend ==
    /\ \A k \in 1..Len(calls) :
          calls[k].op = "AppendToFile" =>
              /\ k > 1
              /\ calls[k - 1] = Call("MkdirAll", Dir(calls[k].path), <<>>)
              /\ Dir(calls[k].path) \in dirs
              /\ calls[k].path = PathOf(notes[k \div 2])
    /\ \A k \in 1..(Len(calls) - 1) :
          calls[k].op = "MkdirAll" => calls[k + 1].op = "AppendToFile"
    /\ err = "mkdir" =>
          /\ calls[Len(calls)] = Call("MkdirAll", Dir(PathOf(notes[idx])), <<>>)
          /\ Len(CallsOf("AppendToFile")) = idx - 1
          /\ pc \in {"return", "done"}
    /\ pc = "append" =>
          /\ calls[Len(calls)] = Call("MkdirAll", Dir(PathOf(notes[idx])), <<>>)
          /\ Dir(PathOf(notes[idx])) \in dirs

\* three notes of two days: the first two are filed, each after its MkdirAll,
\* the MkdirAll of the third fails and the third is not appended
C17_Witness ==
    /\ pc = "done"
    /\ err = "mkdir"
    /\ Len(notes) = 3
    /\ Len(calls) = 5
    /\ calls[1].op = "MkdirAll" /\ calls[2].op = "AppendToFile"
    /\ calls[3].op = "MkdirAll" /\ calls[4].op = "AppendToFile"
    /\ calls[5].op = "MkdirAll"
    /\ calls[2].path # calls[4].path
    /\ LET p == PathOf(notes[3])
       IN  files[p] = ContentOf(files0, p) \o BlocksFor(SubSeq(notes, 1, 2), p, base)

-----------------------------------------------------------------------------
\* three dashes in a row somewhere in the text
HasDelimiter(t) == \E i \in 1..Len(t) : HasPrefixAt(t, i, Delimiter)

(* C18: round trip.  For every metadata block that decodes to a valid note, *)
(* decoding the front matter written for the note yields the same title,     *)
(* the same date (written unquoted) and the same tags in the same order;     *)
(* and the archive block written for the note, read as a buffer, yields one  *)
(* note equal to it in title, date, tags and trimmed content.                *)
C18_RoundTrip ==
    (pc = "tripped" /\ res.valid) =>
        /\ res.decoded.err = "nil"
        /\ res.decoded.Title = res.note.Title
        /\ res.decoded.Date = res.note.Date
        /\ res.decoded.Tags = res.note.Tags
        /\ Lines(res.frontMatter)[2] = <<KeyDate, SP>> \o res.note.Date
        /\ res.again.err = "nil"
        /\ res.again.notes = <<res.note>>
        /\ res.note.Content = TrimSpace(arg.content)

\* the front matter alone makes the round trip for every valid note
C18_FrontMatterRoundTrip ==
    (pc = "tripped" /\ res.valid) =>
        /\ res.decoded.err = "nil"
        /\ res.decoded.Title = res.note.Title
        /\ res.decoded.Date = res.note.Date
        /\ res.decoded.Tags = res.note.Tags
        /\ Lines(res.frontMatter)[2] = <<KeyDate, SP>> \o res.note.Date

\* the block makes it for the notes whose title holds no three dashes in a row
C18_BlockRoundTripWithoutDashes ==
    (pc = "tripped" /\ res.valid /\ ~HasDelimiter(res.note.Title)) =>
        /\ res.again.err = "nil"
        /\ res.again.notes = <<res.note>>
        /\ res.note.Content = TrimSpace(arg.content)

-----------------------------------------------------------------------------
\* the runs so far, the current one last
Runs == Append(res, RunRecord)

\* the number of notes a run has appended: its AppendToFile calls that did
\* not fail
Filed(r) ==
    Len(SelectSeq(r.calls, LAMBDA c : c.op = "AppendToFile"))
        - (IF r.err = "append" THEN 1 ELSE 0)

(* C19: no duplicate filing across runs.  Over the runs of main on the same *)
(* buffer file every note of the buffer is appended to the archive at most   *)
(* once: no two runs append the i-th note of the buffer; after a run that    *)
(* failed in the write phase at note k, the next run does not append notes   *)
(* 1..k-1 again.                                                             *)
C19_NoDuplicateFiling ==
    \A i \in 1..MaxNotes :
        Cardinality({r \in 1..Len(Runs) : Filed(Runs[r]) >= i}) <= 1

\* the case C19 names: no run failed to clear the buffer, a run may have
\* failed in the write phase
C19_AfterWriteFailure ==
    (\A r \in 1..Len(res) : res[r].mainErr # "clear") => C19_NoDuplicateFiling

\* when every run is successful and the buffer is cleared, no note is
\* appended twice
C19_HoldsAfterClearedRuns ==
    (\A r \in 1..Len(res) : res[r].err = "nil" /\ res[r].mainErr = "nil")
        => C19_NoDuplicateFiling

-----------------------------------------------------------------------------
\* the step is main's clearing write taking effect: the buffer file is empty
\* after it
ClearingWrite == pc = "clear" /\ pc' = "done" /\ files'[BufferFile] = <<>>

\* every note the buffer file holds has been appended by this run
AllHeldAppended ==
    /\ parseNotes(files[BufferFile]).err = "nil"
    /\ parseNotes(files[BufferFile]).notes = notes
    /\ Len(CallsOf("AppendToFile")) = Len(notes)
    /\ err = "nil"

(* C20: no note is lost by clearing.  Whenever main's clearing write empties *)
(* the buffer file, every note the file holds at that moment has been        *)
(* appended to the archive by this run, also when the editor has appended a  *)
(* note to the file between main's read and the clearing write.              *)
C20_NoNoteLostByClearing == [][ClearingWrite => AllHeldAppended]_vars

-----------------------------------------------------------------------------
\* the program is in its start-up, config.Initialize
InStartup == pc \in {"args", "load", "override", "buffer", "initialized", "initFailed"}

\* the buffer paths of the config that start-up holds; none before LoadConfig
\* has returned one
ConfiguredBuffers == IF res = <<>> THEN {} ELSE {res.BufferFile}

\* start-up has left the file at b as it found it, or has made an empty one
\* in CreateBufferFileIfNeeded where there was none
KeptOrCreated(b) ==
    IF b \in DOMAIN files0 THEN b \in DOMAIN files /\ files[b] = files0[b]
    ELSE b \in DOMAIN files
            => /\ files[b] = <<>>
               /\ pc \in {"initialized", "initFailed"}

\* the buffer file of main's run is as it was, or main's clearing write has
\* emptied it after ProcessNotes returned nil
KeptOrCleared ==
    \/ files[BufferFile] = Buffer0
    \/ /\ files[BufferFile] = <<>>
       /\ pc = "done"
       /\ Succeeded

====
